---- MODULE Spec2Model ----
(***************************************************************************)
(* A model of src/cargo/core/manifest.rs: the LibKind / TargetKind         *)
(* enumerations, the Profile value type with its presets, setters and      *)
(* selective hash, the Target factories and projections, and the Manifest  *)
(* aggregate with its warning list and its serialized form.                *)
(*                                                                         *)
(* Rust values are represented as follows.                                 *)
(*   String, &str, Path     a TLA+ string                                  *)
(*   Vec<T>                 a sequence                                     *)
(*   Option<T>              <<>> for None, <<x>> for Some(x)               *)
(*   Result<T, E>           [tag |-> "Ok", val |-> v] or                   *)
(*                          [tag |-> "Err", msg |-> m], the error being    *)
(*                          represented by the message given to human()    *)
(*   struct                 a record with the struct's field names         *)
(*   enum variant           the variant's name as a string                 *)
(***************************************************************************)
EXTENDS Integers, Sequences, FiniteSets, TLC

VARIABLES
    profiles,       \* two Profile values held by callers, indexed by Slots
    setter_calls,   \* number of setter calls made so far on either value
    parse_call,     \* the last LibKind parsing call: the operation and its argument
    parse_ret,      \* what that call returned
    target,         \* the Target built by the last factory call
    target_call,    \* that call: the factory and the arguments it was given
    manifest,       \* the Manifest
    manifest_args,  \* the arguments its Manifest::new call was given
    warned,         \* the strings passed to add_warning since, in call order
    encoded         \* the SerializedManifest the last encode of this Manifest built

vars == <<profiles, setter_calls, parse_call, parse_ret, target, target_call, manifest, manifest_args, warned,
          encoded>>

profile_vars == <<profiles, setter_calls>>
libkind_vars == <<parse_call, parse_ret>>
target_vars == <<target, target_call>>
manifest_vars == <<manifest, manifest_args, warned, encoded>>

(***************************************************************************)
(* Bounds of the model.                                                    *)
(***************************************************************************)
MaxSetterCalls == 2   \* setter calls in one run
MaxOptLevel == 3      \* largest level passed to Profile::opt_level
MaxUnits == 2         \* largest count passed to Profile::codegen_units
MaxStrings == 3       \* longest list passed to LibKind::from_strs
MaxKinds == 3         \* longest kind list passed to Target::lib_target
MaxWarnings == 2      \* add_warning calls on one Manifest

None == <<>>
Some(x) == <<x>>

Ok(v) == [tag |-> "Ok", val |-> v]
Err(m) == [tag |-> "Err", msg |-> m]
Pending == [tag |-> "Pending"]

(***************************************************************************)
(* Profile                                                                 *)
(***************************************************************************)
ProfileFields ==
    {"env", "opt_level", "codegen_units", "debug", "test", "doctest",
     "doc", "dest", "plugin", "harness"}

Profile_default ==
    [env |-> "", opt_level |-> 0, codegen_units |-> None, debug |-> FALSE,
     test |-> FALSE, doc |-> FALSE, dest |-> None, plugin |-> FALSE,
     doctest |-> FALSE, harness |-> TRUE]

default_dev ==
    [Profile_default EXCEPT !.env = "compile", !.opt_level = 0, !.debug = TRUE]

default_test ==
    [Profile_default EXCEPT !.env = "test", !.debug = TRUE, !.test = TRUE,
                            !.dest = None]

\* Faulty variant: the bench preset left at the baseline optimization level.
default_bench_unoptimized ==
    [Profile_default EXCEPT !.env = "bench", !.test = TRUE,
                            !.dest = Some("release")]

default_bench ==
    [Profile_default EXCEPT !.env = "bench", !.opt_level = 3, !.test = TRUE,
                            !.dest = Some("release")]

default_release ==
    [Profile_default EXCEPT !.env = "release", !.opt_level = 3,
                            !.dest = Some("release")]

default_doc ==
    [Profile_default EXCEPT !.env = "doc", !.dest = None, !.doc = TRUE]

\* The public constructors of Profile: Profile::default is private.
Presets == {default_dev, default_test, default_bench, default_release, default_doc}

get_opt_level(p) == p.opt_level
get_codegen_units(p) == p.codegen_units
get_debug(p) == p.debug
get_env(p) == p.env
get_dest(p) == p.dest
is_compile(p) == p.env = "compile"
is_doc(p) == p.doc
is_test(p) == p.test
uses_test_harness(p) == p.harness
is_doctest(p) == p.doctest
is_plugin(p) == p.plugin

opt_level(p, level) == [p EXCEPT !.opt_level = level]
codegen_units(p, units) == [p EXCEPT !.codegen_units = units]
debug(p, v) == [p EXCEPT !.debug = v]
\* Faulty variant: the test setter also switches the doctest flag.
test_and_doctest(p, v) == [p EXCEPT !.test = v, !.doctest = v]

test(p, v) == [p EXCEPT !.test = v]
doctest(p, v) == [p EXCEPT !.doctest = v]
doc(p, v) == [p EXCEPT !.doc = v]
plugin(p, v) == [p EXCEPT !.plugin = v]
harness(p, v) == [p EXCEPT !.harness = v]

\* Faulty variant: the hash derived over every field of the struct.
Profile_hash_derived(p) ==
    <<p.env, p.opt_level, p.codegen_units, p.debug, p.test, p.doctest, p.doc,
      p.dest, p.plugin, p.harness>>

\* Faulty variant: the harness flag left out of the hashed tuple.
Profile_hash_without_harness(p) ==
    <<p.opt_level, p.codegen_units, p.debug, p.plugin, p.dest>>

\* The value Profile::hash feeds to the hasher.
Profile_hash(p) ==
    <<p.opt_level, p.codegen_units, p.debug, p.plugin, p.dest, p.harness>>

Slots == {1, 2}
OptLevels == 0..MaxOptLevel
UnitCounts == {None} \cup {Some(n) : n \in 1..MaxUnits}

\* A setter call: the setter's name and its argument.
SetterCalls ==
    [setter : {"opt_level"}, arg : OptLevels]
    \cup [setter : {"codegen_units"}, arg : UnitCounts]
    \cup [setter : {"debug", "test", "doctest", "doc", "plugin", "harness"},
          arg : BOOLEAN]

\* The Profile a setter call returns when made on p.
ApplySetter(p, c) ==
    CASE c.setter = "opt_level" -> opt_level(p, c.arg)
      [] c.setter = "codegen_units" -> codegen_units(p, c.arg)
      [] c.setter = "debug" -> debug(p, c.arg)
      [] c.setter = "test" -> test(p, c.arg)
      [] c.setter = "doctest" -> doctest(p, c.arg)
      [] c.setter = "doc" -> doc(p, c.arg)
      [] c.setter = "plugin" -> plugin(p, c.arg)
      [] c.setter = "harness" -> harness(p, c.arg)

\* A caller replaces the value in slot i by a fresh preset.
NewPreset(i) ==
    /\ \E q \in Presets : profiles' = [profiles EXCEPT ![i] = q]
    /\ UNCHANGED <<setter_calls, libkind_vars, target_vars, manifest_vars>>

\* A caller chains one setter on the value in slot i: p = p.setter(arg).
CallSetter(i) ==
    /\ setter_calls < MaxSetterCalls
    /\ \E c \in SetterCalls :
          profiles' = [profiles EXCEPT ![i] = ApplySetter(profiles[i], c)]
    /\ setter_calls' = setter_calls + 1
    /\ UNCHANGED <<libkind_vars, target_vars, manifest_vars>>

(***************************************************************************)
(* LibKind                                                                 *)
(***************************************************************************)
LibKinds == {"Lib", "Rlib", "Dylib", "StaticLib"}

\* Faulty variant: an unknown text falls back to the generic kind.
LibKind_from_str_defaulting(s) ==
    CASE s = "lib" -> Ok("Lib")
      [] s = "rlib" -> Ok("Rlib")
      [] s = "dylib" -> Ok("Dylib")
      [] s = "staticlib" -> Ok("StaticLib")
      [] OTHER -> Ok("Lib")

LibKind_from_str(s) ==
    CASE s = "lib" -> Ok("Lib")
      [] s = "rlib" -> Ok("Rlib")
      [] s = "dylib" -> Ok("Dylib")
      [] s = "staticlib" -> Ok("StaticLib")
      [] OTHER -> Err(s \o " was not one of lib|rlib|dylib|staticlib")

\* collect() of the mapped iterator from entry i on, into a Result: acc holds
\* the kinds parsed so far, and the first Err ends the iteration and is the
\* result.
RECURSIVE CollectFrom(_, _, _)
CollectFrom(ss, i, acc) ==
    IF i > Len(ss)
    THEN Ok(acc)
    ELSE LET r == LibKind_from_str(ss[i])
         IN IF r.tag = "Err" THEN r ELSE CollectFrom(ss, i + 1, Append(acc, r.val))

\* Faulty variant: every entry is parsed and the last error, not the first, is kept.
LibKind_from_strs_last_error(ss) ==
    LET bad == {i \in 1..Len(ss) : LibKind_from_str(ss[i]).tag = "Err"}
    IN IF bad = {}
       THEN Ok([i \in 1..Len(ss) |-> LibKind_from_str(ss[i]).val])
       ELSE LibKind_from_str(ss[CHOOSE i \in bad : \A j \in bad : j <= i])

LibKind_from_strs(ss) == CollectFrom(ss, 1, <<>>)

crate_type(k) ==
    CASE k = "Lib" -> "lib"
      [] k = "Rlib" -> "rlib"
      [] k = "Dylib" -> "dylib"
      [] k = "StaticLib" -> "staticlib"

\* The texts the parsing operations are called with.
KindTexts == {"lib", "rlib", "dylib", "staticlib", "foo", "Lib", ""}

RECURSIVE SeqsUpTo(_, _)
SeqsUpTo(S, n) ==
    IF n = 0
    THEN {<<>>}
    ELSE LET shorter == SeqsUpTo(S, n - 1)
         IN shorter \cup {Append(q, x) : q \in shorter, x \in S}

CallFromStr ==
    /\ \E s \in KindTexts :
          /\ parse_call' = [op |-> "from_str", arg |-> s]
          /\ parse_ret' = LibKind_from_str(s)
    /\ UNCHANGED <<profile_vars, target_vars, manifest_vars>>

CallFromStrs ==
    /\ \E ss \in SeqsUpTo(KindTexts, MaxStrings) :
          /\ parse_call' = [op |-> "from_strs", arg |-> ss]
          /\ parse_ret' = LibKind_from_strs(ss)
    /\ UNCHANGED <<profile_vars, target_vars, manifest_vars>>

(***************************************************************************)
(* Target                                                                  *)
(***************************************************************************)
LibTarget(ks) == [tag |-> "LibTarget", kinds |-> ks]
BinTarget == [tag |-> "BinTarget"]

\* core::package_id::Metadata, of which this file reads extra_filename only.
Metadatas ==
    {[metadata |-> "abc123", extra_filename |-> "-abc123"],
     [metadata |-> "def456", extra_filename |-> "-def456"]}

TargetNames == {"mylib", "demo"}
SrcPaths == {"src/main.rs"}

\* The profiles the factories are called with.
TargetProfiles == {default_dev, default_release}

\* Faulty variant: the metadata suffix is dropped.
file_stem_bare(t) == t.name

file_stem(t) ==
    IF t.metadata # None
    THEN t.name \o t.metadata[1].extra_filename
    ELSE t.name

lib_target(name, crate_targets, src_path, profile, metadata) ==
    [kind |-> LibTarget(crate_targets), name |-> name, src_path |-> src_path,
     profile |-> profile, metadata |-> Some(metadata)]

bin_target(name, src_path, profile, metadata) ==
    [kind |-> BinTarget, name |-> name, src_path |-> src_path,
     profile |-> profile, metadata |-> metadata]

example_target(name, src_path, profile) ==
    [kind |-> BinTarget, name |-> name, src_path |-> src_path,
     profile |-> profile, metadata |-> None]

test_target(name, src_path, profile, metadata) ==
    [kind |-> BinTarget, name |-> name, src_path |-> src_path,
     profile |-> profile, metadata |-> Some(metadata)]

bench_target(name, src_path, profile, metadata) ==
    [kind |-> BinTarget, name |-> name, src_path |-> src_path,
     profile |-> profile, metadata |-> Some(metadata)]

is_lib(t) == t.kind.tag = "LibTarget"

is_dylib(t) ==
    IF t.kind.tag = "LibTarget"
    THEN \E i \in 1..Len(t.kind.kinds) : t.kind.kinds[i] = "Dylib"
    ELSE FALSE

\* Faulty variant: the generic kind is not merged into the relocatable one.
is_rlib_strict(t) ==
    IF t.kind.tag = "LibTarget"
    THEN \E i \in 1..Len(t.kind.kinds) : t.kind.kinds[i] = "Rlib"
    ELSE FALSE

is_rlib(t) ==
    IF t.kind.tag = "LibTarget"
    THEN \E i \in 1..Len(t.kind.kinds) :
            t.kind.kinds[i] = "Rlib" \/ t.kind.kinds[i] = "Lib"
    ELSE FALSE

is_staticlib(t) ==
    IF t.kind.tag = "LibTarget"
    THEN \E i \in 1..Len(t.kind.kinds) : t.kind.kinds[i] = "StaticLib"
    ELSE FALSE

is_bin(t) == t.kind.tag = "BinTarget"

\* Faulty variant: the tokens come out in reverse declaration order.
rustc_crate_types_reversed(t) ==
    IF t.kind.tag = "LibTarget"
    THEN [i \in 1..Len(t.kind.kinds) |->
            crate_type(t.kind.kinds[Len(t.kind.kinds) + 1 - i])]
    ELSE <<"bin">>

rustc_crate_types(t) ==
    IF t.kind.tag = "LibTarget"
    THEN [i \in 1..Len(t.kind.kinds) |-> crate_type(t.kind.kinds[i])]
    ELSE <<"bin">>

CallLibTarget ==
    /\ \E name \in TargetNames, ks \in SeqsUpTo(LibKinds, MaxKinds),
          path \in SrcPaths, p \in TargetProfiles, m \in Metadatas :
          /\ target' = lib_target(name, ks, path, p, m)
          /\ target_call' = [op |-> "lib_target", name |-> name, metadata |-> m]
    /\ UNCHANGED <<profile_vars, libkind_vars, manifest_vars>>

CallBinTarget ==
    /\ \E name \in TargetNames, path \in SrcPaths, p \in TargetProfiles,
          m \in {None} \cup {Some(x) : x \in Metadatas} :
          /\ target' = bin_target(name, path, p, m)
          /\ target_call' = [op |-> "bin_target", name |-> name, metadata |-> m]
    /\ UNCHANGED <<profile_vars, libkind_vars, manifest_vars>>

CallExampleTarget ==
    /\ \E name \in TargetNames, path \in SrcPaths, p \in TargetProfiles :
          /\ target' = example_target(name, path, p)
          /\ target_call' = [op |-> "example_target", name |-> name]
    /\ UNCHANGED <<profile_vars, libkind_vars, manifest_vars>>

CallTestTarget ==
    /\ \E name \in TargetNames, path \in SrcPaths, p \in TargetProfiles, m \in Metadatas :
          /\ target' = test_target(name, path, p, m)
          /\ target_call' = [op |-> "test_target", name |-> name, metadata |-> m]
    /\ UNCHANGED <<profile_vars, libkind_vars, manifest_vars>>

CallBenchTarget ==
    /\ \E name \in TargetNames, path \in SrcPaths, p \in TargetProfiles, m \in Metadatas :
          /\ target' = bench_target(name, path, p, m)
          /\ target_call' = [op |-> "bench_target", name |-> name, metadata |-> m]
    /\ UNCHANGED <<profile_vars, libkind_vars, manifest_vars>>

(***************************************************************************)
(* Manifest                                                                *)
(***************************************************************************)
\* core::Summary, of which this file reads the name, the version and the
\* dependencies.
Summaries ==
    {[name |-> "foo", version |-> "0.1.0", dependencies |-> <<>>],
     [name |-> "bar", version |-> "1.2.3", dependencies |-> <<"foo">>]}

TargetLists ==
    {<<>>,
     <<lib_target("mylib", <<"Lib">>, "src/lib.rs", default_dev,
                  [metadata |-> "abc123", extra_filename |-> "-abc123"]),
       example_target("demo", "examples/demo.rs", default_dev)>>}

BuildLists == {<<>>, <<"echo hi">>, <<"make", "make install">>}
ExcludeLists == {<<>>, <<"*.bak">>}
WarningTexts == {"w1", "w2"}

\* The arguments of a Manifest::new call.
ManifestArgs ==
    [summary : Summaries, targets : TargetLists, target_dir : {"target"},
     doc_dir : {"doc"}, sources : {<<"registry">>}, build : BuildLists,
     exclude : ExcludeLists]

Manifest_new(summary, targets, target_dir, doc_dir, sources, build, exclude) ==
    [summary |-> summary, authors |-> <<>>, targets |-> targets,
     target_dir |-> target_dir, doc_dir |-> doc_dir, sources |-> sources,
     build |-> build, warnings |-> <<>>, exclude |-> exclude]

\* Faulty variant: a warning already in the list is not added again.
add_warning_dedup(m, s) ==
    IF \E i \in 1..Len(m.warnings) : m.warnings[i] = s
    THEN m
    ELSE [m EXCEPT !.warnings = Append(m.warnings, s)]

add_warning(m, s) == [m EXCEPT !.warnings = Append(m.warnings, s)]

get_summary(m) == m.summary
get_authors(m) == m.authors
get_targets(m) == m.targets
get_target_dir(m) == m.target_dir
get_doc_dir(m) == m.doc_dir
get_source_ids(m) == m.sources
get_build(m) == m.build
get_warnings(m) == m.warnings
get_exclude(m) == m.exclude

NewManifest(a) ==
    Manifest_new(a.summary, a.targets, a.target_dir, a.doc_dir, a.sources,
                 a.build, a.exclude)

\* core::dependency::SerializedDependency::from_dependency, applied to a
\* dependency that the model represents by its name.
SerializedDependency_from_dependency(d) == [name |-> d]

\* Faulty variant: the build commands are always present, an empty list too.
Manifest_encode_build_always(m) ==
    [name |-> m.summary.name,
     version |-> m.summary.version,
     dependencies |-> [i \in 1..Len(m.summary.dependencies) |->
                         SerializedDependency_from_dependency(m.summary.dependencies[i])],
     authors |-> m.authors,
     targets |-> m.targets,
     target_dir |-> m.target_dir,
     doc_dir |-> m.doc_dir,
     build |-> Some(m.build)]

\* The SerializedManifest that Manifest::encode builds and encodes.
Manifest_encode(m) ==
    [name |-> m.summary.name,
     version |-> m.summary.version,
     dependencies |-> [i \in 1..Len(m.summary.dependencies) |->
                         SerializedDependency_from_dependency(m.summary.dependencies[i])],
     authors |-> m.authors,
     targets |-> m.targets,
     target_dir |-> m.target_dir,
     doc_dir |-> m.doc_dir,
     build |-> IF Len(m.build) = 0 THEN None ELSE Some(m.build)]

\* A new Manifest has not been encoded.
CallManifestNew ==
    /\ \E a \in ManifestArgs :
          /\ manifest' = NewManifest(a)
          /\ manifest_args' = a
    /\ warned' = <<>>
    /\ encoded' = Pending
    /\ UNCHANGED <<profile_vars, libkind_vars, target_vars>>

CallAddWarning ==
    /\ Len(warned) < MaxWarnings
    /\ \E s \in WarningTexts :
          /\ manifest' = add_warning(manifest, s)
          /\ warned' = Append(warned, s)
    /\ UNCHANGED <<manifest_args, encoded, profile_vars, libkind_vars, target_vars>>

CallEncode ==
    /\ encoded' = Manifest_encode(manifest)
    /\ UNCHANGED <<manifest, manifest_args, warned, profile_vars, libkind_vars,
                   target_vars>>

(***************************************************************************)
(* Specifications: one per component, each from the same initial states.   *)
(***************************************************************************)
InitManifestArgs ==
    [summary |-> [name |-> "foo", version |-> "0.1.0", dependencies |-> <<>>],
     targets |-> <<>>, target_dir |-> "target", doc_dir |-> "doc",
     sources |-> <<"registry">>, build |-> <<>>, exclude |-> <<>>]

Init ==
    /\ profiles = [i \in Slots |-> default_dev]
    /\ setter_calls = 0
    /\ parse_call = [op |-> "none"]
    /\ parse_ret = Pending
    /\ target = example_target("demo", "src/main.rs", default_dev)
    /\ target_call = [op |-> "example_target", name |-> "demo"]
    /\ manifest = NewManifest(InitManifestArgs)
    /\ manifest_args = InitManifestArgs
    /\ warned = <<>>
    /\ encoded = Pending

NextProfile == \E i \in Slots : NewPreset(i) \/ CallSetter(i)

\* One caller building one Profile: a preset, then chained setters.
NextBuilder == NewPreset(1) \/ CallSetter(1)

NextLibKind == CallFromStr \/ CallFromStrs

NextTarget ==
    \/ CallLibTarget
    \/ CallBinTarget
    \/ CallExampleTarget
    \/ CallTestTarget
    \/ CallBenchTarget

NextManifest == CallManifestNew \/ CallAddWarning \/ CallEncode

SpecProfile == Init /\ [][NextProfile]_vars
SpecBuilder == Init /\ [][NextBuilder]_vars
SpecLibKind == Init /\ [][NextLibKind]_vars
SpecTarget == Init /\ [][NextTarget]_vars
SpecManifest == Init /\ [][NextManifest]_vars

(***************************************************************************)
(* Properties                                                              *)
(***************************************************************************)
HashedFields == {"opt_level", "codegen_units", "debug", "plugin", "dest", "harness"}

AgreeOn(F, p, q) == \A f \in F : p[f] = q[f]

\* C1: two Profiles that agree on opt_level, codegen_units, debug, plugin,
\* dest and harness, whatever their env, doc, test and doctest, feed the same
\* value to the hasher.
C1_FingerprintIndependence ==
    AgreeOn(HashedFields, profiles[1], profiles[2])
        => Profile_hash(profiles[1]) = Profile_hash(profiles[2])

\* Two Profiles that are not equal, differ in excluded fields only, and hash
\* alike; at least one of them was made by a setter.
C1_Witness ==
    /\ setter_calls > 0
    /\ profiles[1] # profiles[2]
    /\ AgreeOn(HashedFields, profiles[1], profiles[2])
    /\ profiles[1].env # profiles[2].env
    /\ profiles[1].doctest # profiles[2].doctest
    /\ Profile_hash(profiles[1]) = Profile_hash(profiles[2])

\* C2: two Profiles that differ in at least one of opt_level, codegen_units,
\* debug, plugin, dest, harness feed different values to the hasher.
C2_FingerprintSensitivity ==
    ~AgreeOn(HashedFields, profiles[1], profiles[2])
        => Profile_hash(profiles[1]) # Profile_hash(profiles[2])

\* Two Profiles that differ in the harness flag alone, with different hashes.
C2_Witness ==
    /\ profiles[1].harness # profiles[2].harness
    /\ AgreeOn(ProfileFields \ {"harness"}, profiles[1], profiles[2])
    /\ Profile_hash(profiles[1]) # Profile_hash(profiles[2])

\* C9: on any Profile, two setters of different fields give the same Profile
\* in either order; in it each of the two fields holds its setter's argument
\* and every other field, env and dest included, is as it was.
C9_SettersCommute ==
    \A i \in Slots : \A a, b \in SetterCalls :
        a.setter # b.setter =>
            LET P == profiles[i]
                ab == ApplySetter(ApplySetter(P, a), b)
                ba == ApplySetter(ApplySetter(P, b), a)
            IN /\ ab = ba
               /\ ab[a.setter] = a.arg
               /\ ab[b.setter] = b.arg
               /\ AgreeOn(ProfileFields \ {a.setter, b.setter}, ab, P)

\* Two setter calls of different fields were made on the first Profile, each
\* changing its field, and the Profile is what either order gives.
C9_Witness ==
    /\ setter_calls = 2
    /\ \E q \in Presets : \E a, b \in SetterCalls :
          /\ a.setter # b.setter
          /\ q[a.setter] # a.arg
          /\ q[b.setter] # b.arg
          /\ profiles[1] = ApplySetter(ApplySetter(q, a), b)
          /\ profiles[1] = ApplySetter(ApplySetter(q, b), a)
          /\ profiles[1].env = q.env
          /\ profiles[1].dest = q.dest

ExpectedDev ==
    [env |-> "compile", opt_level |-> 0, codegen_units |-> <<>>,
     debug |-> TRUE, test |-> FALSE, doctest |-> FALSE, doc |-> FALSE,
     dest |-> <<>>, plugin |-> FALSE, harness |-> TRUE]

ExpectedTest ==
    [env |-> "test", opt_level |-> 0, codegen_units |-> <<>>,
     debug |-> TRUE, test |-> TRUE, doctest |-> FALSE, doc |-> FALSE,
     dest |-> <<>>, plugin |-> FALSE, harness |-> TRUE]

ExpectedBench ==
    [env |-> "bench", opt_level |-> 3, codegen_units |-> <<>>,
     debug |-> FALSE, test |-> TRUE, doctest |-> FALSE, doc |-> FALSE,
     dest |-> <<"release">>, plugin |-> FALSE, harness |-> TRUE]

ExpectedRelease ==
    [env |-> "release", opt_level |-> 3, codegen_units |-> <<>>,
     debug |-> FALSE, test |-> FALSE, doctest |-> FALSE, doc |-> FALSE,
     dest |-> <<"release">>, plugin |-> FALSE, harness |-> TRUE]

ExpectedDoc ==
    [env |-> "doc", opt_level |-> 0, codegen_units |-> <<>>,
     debug |-> FALSE, test |-> FALSE, doctest |-> FALSE, doc |-> TRUE,
     dest |-> <<>>, plugin |-> FALSE, harness |-> TRUE]

\* C10: a Profile fresh from a preset, before any setter call, is the
\* baseline with that preset's listed fields: field for field one of the five
\* records above, the one its env names; it has no codegen-unit count and the
\* harness enabled, opt level 3 for release and 0 for dev.
C10_PresetBaselines ==
    setter_calls = 0 =>
        \A i \in Slots :
            LET P == profiles[i]
            IN /\ get_env(P) \in {"compile", "test", "bench", "release", "doc"}
               /\ get_env(P) = "compile" => P = ExpectedDev /\ P = default_dev
               /\ get_env(P) = "test" => P = ExpectedTest /\ P = default_test
               /\ get_env(P) = "bench" => P = ExpectedBench /\ P = default_bench
               /\ get_env(P) = "release" => P = ExpectedRelease /\ P = default_release
               /\ get_env(P) = "doc" => P = ExpectedDoc /\ P = default_doc
               /\ get_codegen_units(P) = None
               /\ uses_test_harness(P)
               /\ get_env(P) = "release" => get_opt_level(P) = 3
               /\ get_env(P) = "compile" => get_opt_level(P) = 0

\* The bench and the release preset, fresh.
C10_Witness ==
    /\ setter_calls = 0
    /\ profiles[1] = default_bench
    /\ profiles[2] = default_release
    /\ get_opt_level(profiles[1]) = 3
    /\ get_dest(profiles[1]) = Some("release")

ValidKindTexts == {"lib", "rlib", "dylib", "staticlib"}

\* hay contains needle as a substring.
Contains(hay, needle) ==
    \E i \in 0..(Len(hay) - Len(needle)) :
        SubSeq(hay, i + 1, i + Len(needle)) = needle

\* C3: is_rlib is true exactly of a library target whose kind list holds Rlib
\* or Lib: true of [Lib] and of [Rlib], false of [Dylib], of [StaticLib] and
\* of every executable target; and a target of kind list [Lib] is neither
\* is_dylib nor is_staticlib.
C3_RlibMerge ==
    LET declared == IF target.kind.tag = "LibTarget"
                    THEN {target.kind.kinds[i] : i \in 1..Len(target.kind.kinds)}
                    ELSE {}
    IN /\ is_rlib(target) <=> (is_lib(target) /\ declared \cap {"Rlib", "Lib"} # {})
       /\ target.kind = LibTarget(<<"Lib">>)
            => is_rlib(target) /\ ~is_dylib(target) /\ ~is_staticlib(target)
       /\ target.kind = LibTarget(<<"Rlib">>) => is_rlib(target)
       /\ target.kind = LibTarget(<<"Dylib">>) => ~is_rlib(target)
       /\ target.kind = LibTarget(<<"StaticLib">>) => ~is_rlib(target)
       /\ target_call.op # "lib_target" => is_bin(target) /\ ~is_rlib(target)

\* A library target of kind list [Lib], built by lib_target.
C3_Witness ==
    /\ target_call.op = "lib_target"
    /\ target.kind = LibTarget(<<"Lib">>)
    /\ is_rlib(target)
    /\ ~is_dylib(target)
    /\ ~is_staticlib(target)

\* C4: from_str succeeds exactly on lib, rlib, dylib, staticlib, each parsed
\* to the kind whose crate_type is that text; on any other text it returns an
\* error whose message contains the text and lib|rlib|dylib|staticlib.
C4_ParseRoundTrip ==
    parse_call.op = "from_str" =>
        LET s == parse_call.arg
            r == parse_ret
        IN /\ r.tag \in {"Ok", "Err"}
           /\ r.tag = "Ok" <=> s \in ValidKindTexts
           /\ r.tag = "Ok" => r.val \in LibKinds /\ crate_type(r.val) = s
           /\ r.tag = "Err" => /\ Contains(r.msg, s)
                               /\ Contains(r.msg, "lib|rlib|dylib|staticlib")
                               /\ DOMAIN r = {"tag", "msg"}

\* from_str was called with Lib, which differs from lib in case only, and
\* failed with a message naming Lib.
C4_Witness ==
    /\ parse_call.op = "from_str"
    /\ parse_call.arg = "Lib"
    /\ parse_ret.tag = "Err"
    /\ Contains(parse_ret.msg, "Lib was not")

\* C5: from_strs on a list of valid names returns the kinds of the entries,
\* as many and in the same order; on any other list it returns the error
\* from_str gives for the first invalid entry, and no list.
C5_ParseMany ==
    parse_call.op = "from_strs" =>
        LET ss == parse_call.arg
            r == parse_ret
            bad == {i \in 1..Len(ss) : ss[i] \notin ValidKindTexts}
        IN IF bad = {}
           THEN /\ r.tag = "Ok"
                /\ Len(r.val) = Len(ss)
                /\ \A i \in 1..Len(ss) : /\ r.val[i] \in LibKinds
                                         /\ crate_type(r.val[i]) = ss[i]
           ELSE LET first == CHOOSE i \in bad : \A j \in bad : i <= j
                IN /\ r.tag = "Err"
                   /\ DOMAIN r = {"tag", "msg"}
                   /\ r = LibKind_from_str(ss[first])
                   /\ r.msg = ss[first] \o " was not one of lib|rlib|dylib|staticlib"

\* from_strs was called with a valid entry, then two invalid ones, and
\* returned the error of the first invalid one.
C5_Witness ==
    /\ parse_call.op = "from_strs"
    /\ parse_call.arg = <<"lib", "foo", "Lib">>
    /\ parse_ret = Err("foo was not one of lib|rlib|dylib|staticlib")

\* C6: file_stem is the name followed by the metadata's extra_filename when
\* the target has Metadata, the name otherwise; so a target built by
\* lib_target, test_target or bench_target has the name and the suffix of the
\* Metadata it was given, one built by example_target has the name alone, and
\* one built by bin_target has the suffix exactly when it was given
\* Some(metadata).
C6_FileStem ==
    LET stem == file_stem(target)
        c == target_call
    IN /\ target.metadata = None => stem = target.name
       /\ target.metadata # None
            => stem = target.name \o target.metadata[1].extra_filename
       /\ c.op \in {"lib_target", "test_target", "bench_target"}
            => stem = c.name \o c.metadata.extra_filename
       /\ c.op = "example_target" => stem = c.name
       /\ c.op = "bin_target"
            => stem = IF c.metadata = None
                      THEN c.name
                      ELSE c.name \o c.metadata[1].extra_filename

\* lib_target was called with the name mylib and the suffix -abc123.
C6_Witness ==
    /\ target_call.op = "lib_target"
    /\ target_call.name = "mylib"
    /\ target_call.metadata.extra_filename = "-abc123"
    /\ file_stem(target) = "mylib-abc123"

\* C7: the warning list is empty after Manifest::new and is, after any
\* add_warning calls, the strings passed, in call order and with repeats;
\* every other field holds what Manifest::new was given (authors: nothing).
C7_WarningsAccumulate ==
    /\ get_warnings(manifest) = warned
    /\ \A f \in {"summary", "targets", "target_dir", "doc_dir", "sources",
                 "build", "exclude"} : manifest[f] = manifest_args[f]
    /\ get_authors(manifest) = <<>>
    /\ DOMAIN manifest = {"summary", "authors", "targets", "target_dir",
                          "doc_dir", "sources", "build", "warnings", "exclude"}

\* The same warning was added twice to a Manifest with build commands.
C7_Witness ==
    /\ warned = <<"w1", "w1">>
    /\ get_warnings(manifest) = <<"w1", "w1">>
    /\ get_build(manifest) = <<"echo hi">>

\* C8: rustc_crate_types of a library target is the list of the crate_type
\* tokens of its kind list, as long and in the same order, repeats kept; of
\* an executable target it is the one-element list of bin.
C8_CrateTypes ==
    LET r == rustc_crate_types(target)
    IN /\ is_lib(target) =>
            /\ Len(r) = Len(target.kind.kinds)
            /\ \A i \in 1..Len(r) :
                  /\ r[i] = crate_type(target.kind.kinds[i])
                  /\ LibKind_from_str(r[i]) = Ok(target.kind.kinds[i])
       /\ target.kind = LibTarget(<<"Rlib", "Dylib", "Rlib">>)
            => r = <<"rlib", "dylib", "rlib">>
       /\ is_bin(target) => r = <<"bin">>
       /\ is_lib(target) \/ is_bin(target)

\* A library target that declares Rlib twice, around Dylib.
C8_Witness ==
    /\ target_call.op = "lib_target"
    /\ target.kind = LibTarget(<<"Rlib", "Dylib", "Rlib">>)
    /\ rustc_crate_types(target) = <<"rlib", "dylib", "rlib">>

\* C11: the SerializedManifest built from a Manifest has no build field
\* value (None, never Some of an empty list) when the Manifest's build command
\* list is empty, and Some of the same commands in the same order when it is
\* not.
C11_BuildOmittedWhenEmpty ==
    encoded # Pending =>
        /\ encoded.build # Some(<<>>)
        /\ get_build(manifest) = <<>> => encoded.build = None
        /\ get_build(manifest) # <<>>
             => /\ encoded.build # None
                /\ Len(encoded.build) = 1
                /\ encoded.build[1] = manifest_args.build
        /\ manifest_args.build = <<"echo hi">> => encoded.build = <<<<"echo hi">>>>

\* A Manifest constructed with no build commands was encoded, after a warning
\* was added to it.
C11_Witness ==
    /\ encoded # Pending
    /\ warned # <<>>
    /\ manifest_args.build = <<>>
    /\ encoded.build = None
    /\ encoded.name = manifest_args.summary.name

====
